---------------------------- MODULE Spec2Model ----------------------------
(***************************************************************************)
(* Model of skoot's skewness transformers (BoxCoxTransformer and           *)
(* YeoJohnsonTransformer, skoot/preprocessing/skewness.py) together with   *)
(* the validators of skoot/utils/validation.py they call.                  *)
(*                                                                         *)
(* Numbers.  Floating point values are modelled in fixed point: the        *)
(* integer v stands for the real v / Scale.  Lambdas are whole numbers     *)
(* (the line search walks an integer grid).  Magnitudes saturate at        *)
(* MaxMag.  The threshold ZERO = 1E-16 of the source lies strictly between *)
(* 0 and the smallest positive grid value, so for a grid value x the test  *)
(* "x < ZERO" is x <= 0 and "x > ZERO" is x > 0 (LtZERO, GtZERO).          *)
(*                                                                         *)
(* Objects.  numpy arrays are mutable objects; np.asarray of an array or   *)
(* of a pandas column does not copy.  A function that writes into its      *)
(* argument is modelled by an operator that returns, next to its result,   *)
(* the contents of the argument array after the call; callers thread that  *)
(* contents on to every name aliasing the same array.                      *)
(***************************************************************************)
EXTENDS Integers, Sequences, FiniteSets, TLC

\* fixed-point resolution: the integer v stands for v / Scale
Scale == 100
\* largest magnitude a value can take (saturation)
MaxMag == 40000
\* largest number of steps of one loop of the line search
MaxIter == 6
\* largest number of rows of a table
MaxRows == 2

\* not-a-number / infinity, as a table entry (np.nan, np.inf)
NaN == 0 - (MaxMag * 8)

Abs(x) == IF x < 0 THEN 0 - x ELSE x
Min2(a, b) == IF a < b THEN a ELSE b
Max2(a, b) == IF a < b THEN b ELSE a
Clamp(v) == Max2(0 - MaxMag, Min2(MaxMag, v))

\* skewness.py:28  ZERO = 1E-16, compared with grid values
LtZERO(x) == x <= 0
GtZERO(x) == x > 0

(***************************************************************************)
(* Elementary functions in fixed point.                                    *)
(***************************************************************************)
\* integer quotient rounded toward zero, b # 0
IDiv(a, b) ==
    IF (a < 0) = (b < 0) THEN Abs(a) \div Abs(b) ELSE 0 - (Abs(a) \div Abs(b))

\* x * y
Mul(x, y) == Clamp(IDiv(Clamp(x) * Clamp(y), Scale))

\* x / y for y # 0; a quotient beyond the representable range saturates
Div(x, y) == Clamp(IDiv(Clamp(x) * Scale, y))

\* x ** k for a fixed-point base x > 0 and a whole exponent k
RECURSIVE PowPos(_, _)
PowPos(x, k) ==
    IF k = 0 THEN Scale
    ELSE LET h == PowPos(x, k \div 2)
             hh == IF h = 0 THEN 0 ELSE Mul(h, h)
         IN  IF k % 2 = 0 THEN hh ELSE IF hh = 0 THEN 0 ELSE Mul(x, hh)

Pow(x, k) ==
    IF k >= 0 THEN PowPos(x, k)
    ELSE LET d == PowPos(x, 0 - k)
         IN  IF d = 0 THEN MaxMag ELSE Div(Scale, d)

\* ln 2
LN2 == (693 * Scale) \div 1000

\* np.log(x) for x > 0: range reduction to [1, 2), then the series
\* 2z + 2z^3/3 with z = (m - 1)/(m + 1)
RECURSIVE Ln(_)
Ln(x) ==
    IF x >= 2 * Scale THEN LN2 + Ln(x \div 2)
    ELSE IF x < Scale THEN Ln(2 * x) - LN2
    ELSE LET z == Div(x - Scale, x + Scale)
         IN  2 * z + (2 * Mul(z, Mul(z, z))) \div 3

\* np.log of a variance: log(0) is -inf
Inf == MaxMag * 4
LnOrInf(x) == IF x <= 0 THEN 0 - Inf ELSE Ln(x)

(***************************************************************************)
(* Vectors (numpy arrays / pandas columns) are sequences of values.        *)
(***************************************************************************)
RECURSIVE SumSeq(_)
SumSeq(v) == IF v = <<>> THEN 0 ELSE v[1] + SumSeq(Tail(v))

RECURSIVE MinSeq(_)
MinSeq(v) == IF Len(v) = 1 THEN v[1] ELSE Min2(v[1], MinSeq(Tail(v)))

\* arr += shift
Shift(v, shift) == [i \in 1..Len(v) |-> Clamp(v[i] + shift)]

\* np.sum((y - np.mean(y)) ** 2. / n)
Variance(y) ==
    LET n == Len(y)
        y_mean == IDiv(SumSeq(y), n)
    IN  SumSeq([i \in 1..n |-> IDiv(Mul(y[i] - y_mean, y[i] - y_mean), n)])

\* np.sum(np.log(data))
SumLog(data) == SumSeq([i \in 1..Len(data) |-> LnOrInf(data[i])])

(***************************************************************************)
(* The piecewise transforms.                                               *)
(***************************************************************************)
\* BoxCoxTransformer.__init__: min_value (default 1e-12), here the smallest
\* positive grid value
min_value == 1

\* BoxCoxTransformer._transform_vector, one element
bc_transform_1(x, lam) ==
    IF x = NaN THEN NaN
    ELSE LET y == Max2(x, min_value)
         IN  IF GtZERO(lam) THEN IDiv(Pow(y, lam) - Scale, lam)
             ELSE Ln(y)

\* BoxCoxTransformer._transform_vector: builds a new array
bc_transform_vector(vec, lam) ==
    [i \in 1..Len(vec) |-> bc_transform_1(vec[i], lam)]

\* _yj_transform_y lines 131-146: the four case formulas, applied to the
\* value v an element holds at the time of the masked write
yj_case1(v, lam) == IF v = NaN THEN NaN ELSE IDiv(Pow(v + Scale, lam) - Scale, lam)
yj_case2(v) == IF v = NaN THEN NaN ELSE Ln(v + Scale)
yj_case3(v, lam) ==
    IF v = NaN THEN NaN
    ELSE 0 - IDiv(Pow(Scale - v, 2 - lam) - Scale, 2 - lam)
yj_case4(v) == IF v = NaN THEN NaN ELSE 0 - Ln(Scale - v)

\* y >= 0 (a comparison with nan is False)
gte_zero_mask(y) == [i \in 1..Len(y) |-> (y[i] # NaN) /\ (y[i] >= 0)]

\* masks whose fourth case forgets lambda, so that cases 3 and 4 overlap:
\* the fault C12 is tested against
yj_masks_overlap(y, lam) ==
    [c1 |-> [i \in 1..Len(y) |-> gte_zero_mask(y)[i] /\ GtZERO(lam)],
     c2 |-> [i \in 1..Len(y) |-> gte_zero_mask(y)[i] /\ ~GtZERO(lam)],
     c3 |-> [i \in 1..Len(y) |-> ~gte_zero_mask(y)[i] /\ lam # 2],
     c4 |-> [i \in 1..Len(y) |-> ~gte_zero_mask(y)[i]]]

\* the four masks of _yj_transform_y, from the array as it is on entry
yj_masks(y, lam) ==
    LET gte == gte_zero_mask(y)
        lam_gt_zero == GtZERO(lam)
        lam_eq_zero == ~lam_gt_zero
        lam_eq_two == (lam = 2)
        lam_not_two == ~lam_eq_two
    IN  [c1 |-> [i \in 1..Len(y) |-> gte[i] /\ lam_gt_zero],
         c2 |-> [i \in 1..Len(y) |-> gte[i] /\ lam_eq_zero],
         c3 |-> [i \in 1..Len(y) |-> ~gte[i] /\ lam_not_two],
         c4 |-> [i \in 1..Len(y) |-> ~gte[i] /\ lam_eq_two]]

\* the contents of the array after the four masked writes, in source order
yj_values(y, lam) ==
    LET m == yj_masks(y, lam)
        n == Len(y)
        y1 == [i \in 1..n |-> IF m.c1[i] THEN yj_case1(y[i], lam) ELSE y[i]]
        y2 == [i \in 1..n |-> IF m.c2[i] THEN yj_case2(y1[i]) ELSE y1[i]]
        y3 == [i \in 1..n |-> IF m.c3[i] THEN yj_case3(y2[i], lam) ELSE y2[i]]
        y4 == [i \in 1..n |-> IF m.c4[i] THEN yj_case4(y3[i]) ELSE y3[i]]
    IN  y4

\* _yj_transform_y(y, lam): np.asarray does not copy, the masked writes go
\* into the argument and the argument itself is returned.
\*   ret : contents of the returned array,  arg : contents of the argument
\*   after the call,  same : the returned array is the argument array
in_place(written) == [ret |-> written, arg |-> written, same |-> TRUE]
yj_transform_y(y, lam) == in_place(yj_values(y, lam))

(***************************************************************************)
(* Log-likelihood objectives.  A score is [nan, v]: nan is np.nan.         *)
(***************************************************************************)
Num(v) == [nan |-> FALSE, v |-> Clamp(v)]
NaNScore == [nan |-> TRUE, v |-> 0]
Neg(s) == IF s.nan THEN s ELSE Num(0 - s.v)
\* a < b on floats: False when either side is nan
Less(a, b) == ~a.nan /\ ~b.nan /\ a.v < b.v

\* _yj_llf lines 91-99, entered with the contents d1 of data and y1 of
\* y_trans; alias: both names denote one array, so a write through either
\* name is seen through the other.  The contents of both after line 99.
yj_llf_shifts(d1, y1, alias) ==
    LET \* line 91
        min_d == MinSeq(d1)
        min_y == MinSeq(y1)
        \* lines 92-94: data += shift
        d2 == IF LtZERO(min_d) THEN Shift(d1, Abs(min_d) + Scale) ELSE d1
        y2 == IF alias THEN d2 ELSE y1
        \* lines 97-99: y_trans += shift
        y3 == IF LtZERO(min_y) THEN Shift(y2, Abs(min_y) + Scale) ELSE y2
        d3 == IF alias THEN y3 ELSE d2
    IN  [data |-> d3, y_trans |-> y3]

\* _yj_llf lines 102-114, from the contents of data and y_trans
yj_llf_score(data, y_trans, lmb) ==
    LET n == Len(data)
        var == Variance(y_trans)
    IN  IF 0 = var THEN NaNScore
        ELSE Num((lmb - 1) * Clamp(SumLog(data)) - IDiv(n * LnOrInf(var), 2))

\* _yj_llf lines 91-114, after line 86 returned tr
yj_llf_after(tr, lmb) ==
    LET sh == yj_llf_shifts(tr.arg, tr.ret, tr.same)
    IN  [llf |-> yj_llf_score(sh.data, sh.y_trans, lmb), data |-> sh.data]

\* _yj_llf(data, lmb).  llf : the returned score,  data : contents of the
\* caller's array after the call.
yj_llf(data0, lmb) == yj_llf_after(yj_transform_y(data0, lmb), lmb)

\* scipy.special.boxcox(x, lmbda) as called by scipy.stats.boxcox
sp_boxcox(x, lmb) ==
    [i \in 1..Len(x) |->
        IF lmb = 0 THEN Ln(x[i]) ELSE IDiv(Pow(x[i], lmb) - Scale, lmb)]

\* scipy.stats.boxcox_llf(lmb, data), the objective behind boxcox(y, lmbda=None)
bc_llf(lmb, data) ==
    LET n == Len(data)
        var == Variance(sp_boxcox(data, lmb))
    IN  Num((lmb - 1) * Clamp(SumLog(data)) - IDiv(n * LnOrInf(var), 2))

\* _eval_mle: the function handed to the line search, minus the log-likelihood.
\*   f : the value,  data : contents of the searched array after the call
eval_mle(r) == [f |-> Neg(r.llf), data |-> r.data]
Objective(kind, data, lmb) ==
    IF kind = "yj" THEN eval_mle(yj_llf(data, lmb))
    ELSE eval_mle([llf |-> bc_llf(lmb, data), data |-> data])

(***************************************************************************)
(* scipy.optimize.brent(func, brack=(xa, xb), args=(data,)) on the integer *)
(* lambda grid: a downhill bracket search followed by golden-section       *)
(* steps.  A search is a record; one step of it is one evaluation of func. *)
(* Every evaluation receives the same array object (data), so the contents *)
(* one evaluation leaves are what the next one reads.                      *)
(* Scores compare as floats do: a comparison with nan is false (Less), and  *)
(* neither loop tests its scores for nan, so a search always returns the   *)
(* point it ends on.                                                       *)
(*   ph     : "fa", "fb", "fc", "grow" (scipy.optimize.bracket),           *)
(*            "min" (Brent.optimize), "done"                               *)
(*   allnan : every value func returned so far was nan                     *)
(*   evals  : number of evaluations made                                   *)
(***************************************************************************)
\* YeoJohnsonTransformer.__init__: brack=(-2, 2); scipy's boxcox uses the same
brack == <<0 - 2, 2>>

\* the golden-ratio growth of the bracket search (1.618) on the grid
GoldStep(d) == d + IDiv(d, 2)

search_init(kind, data) ==
    [kind |-> kind, ph |-> "fa", data |-> data,
     xa |-> brack[1], xb |-> brack[2], xc |-> 0,
     fa |-> NaNScore, fb |-> NaNScore, fc |-> NaNScore,
     a |-> 0, b |-> 0, x |-> 0, fx |-> NaNScore,
     iter |-> 0, allnan |-> TRUE, evals |-> 0]

\* the search after evaluating func at lmb, before the bookkeeping
evaluated(s, e) ==
    [s EXCEPT !.data = e.data, !.allnan = s.allnan /\ e.f.nan,
              !.evals = s.evals + 1]

\* Brent.optimize stops: abs(x - xmid) < tol2 - 0.5 * (b - a), tolerance one
\* grid unit, or maxiter steps were made
search_converged(s) ==
    \/ s.iter >= MaxIter
    \/ Abs(2 * s.x - (s.a + s.b)) < 4 - (s.b - s.a)

\* the bookkeeping of each phase, given the evaluation e it made
step_fa(s, e) == [evaluated(s, e) EXCEPT !.ph = "fb", !.fa = e.f]

\* if fa < fb: swap, so that the search goes downhill from xa to xb
step_fb(s, e, swap) ==
    [evaluated(s, e) EXCEPT
        !.ph = "fc",
        !.xa = IF swap THEN s.xb ELSE s.xa,
        !.xb = IF swap THEN s.xa ELSE s.xb,
        !.fa = IF swap THEN e.f ELSE s.fa,
        !.fb = IF swap THEN s.fa ELSE e.f,
        !.xc = IF swap THEN s.xa + GoldStep(s.xa - s.xb)
               ELSE s.xb + GoldStep(s.xb - s.xa)]

step_fc(s, e) == [evaluated(s, e) EXCEPT !.ph = "grow", !.fc = e.f]

\* while fc < fb: one step further downhill, evaluated at w
grow_point(s) == s.xc + GoldStep(s.xc - s.xb)
step_grow(s, e, w) ==
    [evaluated(s, e) EXCEPT
        !.xa = s.xb, !.xb = s.xc, !.xc = w,
        !.fa = s.fb, !.fb = s.fc, !.fc = e.f, !.iter = s.iter + 1]

\* the bracket is found; Brent.optimize starts at xb
step_start_min(s, e) ==
    [evaluated(s, e) EXCEPT
        !.ph = "min", !.iter = 0,
        !.a = Min2(s.xa, s.xc), !.b = Max2(s.xa, s.xc),
        !.x = s.xb, !.fx = e.f]

\* the golden-section point u tried next
min_point(s) ==
    LET deltax == IF 2 * s.x >= s.a + s.b THEN s.a - s.x ELSE s.b - s.x
        rat0 == IDiv(deltax * 2, 5)
    IN  s.x + (IF rat0 # 0 THEN rat0 ELSE IF deltax < 0 THEN 0 - 1 ELSE 1)

\* worse: fu > fx
step_min(s, e, u, worse) ==
    [evaluated(s, e) EXCEPT
        !.a = IF worse THEN (IF u < s.x THEN u ELSE s.a)
              ELSE (IF u >= s.x THEN s.x ELSE s.a),
        !.b = IF worse THEN (IF u < s.x THEN s.b ELSE u)
              ELSE (IF u >= s.x THEN s.b ELSE s.x),
        !.x = IF worse THEN s.x ELSE u,
        !.fx = IF worse THEN s.fx ELSE e.f,
        !.iter = s.iter + 1]
step_min_at(s, e, u) == step_min(s, e, u, Less(s.fx, e.f))

\* the lambda at which the next step evaluates func
next_point(s) ==
    CASE s.ph = "fa" -> s.xa
      [] s.ph = "fb" -> s.xb
      [] s.ph = "fc" -> s.xc
      [] s.ph = "grow" ->
            IF Less(s.fc, s.fb) /\ s.iter < MaxIter THEN grow_point(s) ELSE s.xb
      [] OTHER -> min_point(s)

search_apply(s, lmb, e) ==
    CASE s.ph = "fa" -> step_fa(s, e)
      [] s.ph = "fb" -> step_fb(s, e, Less(s.fa, e.f))
      [] s.ph = "fc" -> step_fc(s, e)
      [] s.ph = "grow" ->
            IF Less(s.fc, s.fb) /\ s.iter < MaxIter THEN step_grow(s, e, lmb)
            ELSE step_start_min(s, e)
      [] OTHER -> step_min_at(s, e, lmb)

search_eval(s, lmb) == search_apply(s, lmb, Objective(s.kind, s.data, lmb))

search_step(s) ==
    IF s.ph = "done" THEN s
    ELSE IF s.ph = "min" /\ search_converged(s) THEN [s EXCEPT !.ph = "done"]
    ELSE search_eval(s, next_point(s))

(***************************************************************************)
(* The estimators, as searches.  est_begin is the estimator entered with   *)
(* the array y; est_arg is what the array handed in holds after the steps  *)
(* made so far.                                                            *)
(***************************************************************************)
\* _bc_est_lam lines 43-46: np.maximum builds a new, floored array and
\* scipy's boxcox(y, lmbda=None) searches on it
bc_est_begin(y, min_val) ==
    search_init("bc", [i \in 1..Len(y) |-> Max2(y[i], min_val)])

\* _yj_est_lam lines 53-63: np.asarray(y) is the column's own array and the
\* search runs on it
yj_est_begin(y, brck) == search_init("yj", y)

\* contents of the array handed to the estimator: _bc_est_lam works on its
\* floored array, _yj_est_lam on the argument
est_arg(s, y) == IF s.kind = "yj" THEN s.data ELSE y

(***************************************************************************)
(* Tables (pandas DataFrames): names is the ordered list of column names,  *)
(* col maps each name to its column.  Inputs.                              *)
(***************************************************************************)
Range(f) == {f[i] : i \in DOMAIN f}
NoTable == [names |-> <<>>, col |-> <<>>]
NRows(X) == IF X.names = <<>> THEN 0 ELSE Len(X.col[X.names[1]])

\* column patterns the input tables are built from: row i of pattern k
Pat(k, i) ==
    CASE k = 1 -> i * i * Scale                 \* 1, 4, 9: positive, skewed
      [] k = 2 -> 2 * Scale                     \* all values equal
      [] k = 3 -> (2 * i - 3) * Scale           \* -1, 1, 3: mixed signs
      [] k = 4 -> IF i = 1 THEN NaN ELSE 0      \* holds a non-finite value
      [] OTHER -> 0
Patterns == {1, 2, 3, 4}
Vec(k, n) == [i \in 1..n |-> Pat(k, i)]

\* shapes of column "a": every pattern at full length, and one single row
Shapes == {<<k, MaxRows>> : k \in Patterns} \cup {<<1, 1>>}
\* the pattern of column "b" that goes with pattern k of column "a"
Other(k) == IF k = 1 THEN 3 ELSE 1

Tables ==
    {[names |-> <<"a">>, col |-> [c \in {"a"} |-> Vec(sh[1], sh[2])]] :
        sh \in Shapes}
    \cup
    {[names |-> <<"a", "b">>,
      col |-> [c \in {"a", "b"} |->
                  IF c = "a" THEN Vec(sh[1], sh[2]) ELSE Vec(Other(sh[1]), sh[2])]] :
        sh \in Shapes}

\* the cols parameter of the constructor: None, or a list of names
ColsNone == [none |-> TRUE, list |-> <<>>]
ColsList(l) == [none |-> FALSE, list |-> l]
ColsOptions ==
    {ColsNone, ColsList(<<"a">>), ColsList(<<"b", "a">>), ColsList(<<"a", "a">>)}

(***************************************************************************)
(* skoot/utils/validation.py                                               *)
(***************************************************************************)
\* line 87: any(c not in present_columns for c in cols)
cols_missing(cs, present_columns) ==
    \E i \in DOMAIN cs : cs[i] \notin present_columns

\* a finiteness test that passes every frame: the fault C6 is tested against
finite_unchecked(X, cs) == FALSE

\* lines 101-102: a non-finite entry in one of the columns cols
not_all_finite(X, cs) ==
    \E i \in DOMAIN cs : \E r \in DOMAIN X.col[cs[i]] : X.col[cs[i]][r] = NaN

\* a validator that hands back the caller's frame itself, as X.copy() left
\* out would: the fault C2 is tested against
frame_same(X) == [frame |-> X, same |-> TRUE]

\* line 107: X.copy() is a new frame with its own data.
\*   frame : contents,  same : the frame returned is the object passed in
frame_copy(X) == [frame |-> X, same |-> FALSE]

\* check_dataframe(X, cols, assert_all_finite=True) for a DataFrame X.
\*   err : ValueError raised,  cols : the resolved column list
check_dataframe(X, cs) ==
    LET present_columns == Range(X.names)
        missing == ~cs.none /\ cols_missing(cs.list, present_columns)
        resolved == IF cs.none THEN X.names ELSE cs.list
        cp == frame_copy(X)
    IN  IF missing \/ not_all_finite(X, resolved)
        THEN [err |-> TRUE, frame |-> NoTable, same |-> FALSE, cols |-> <<>>]
        ELSE [err |-> FALSE, frame |-> cp.frame, same |-> cp.same,
              cols |-> resolved]

\* a row test that lets a single row through: the fault C4 is tested against
validate_one_row(frame) == NRows(frame) < 1

\* validate_multiple_rows: TRUE when ValueError is raised
validate_multiple_rows(frame) == NRows(frame) < 2

\* validate_test_set_columns: TRUE when ValueError is raised
validate_test_set_columns(fit_columns, test_columns) ==
    ~(\A i \in DOMAIN fit_columns : fit_columns[i] \in Range(test_columns))

\* a fitted test that never fails: the fault C1 is tested against
fitted_unchecked(h) == TRUE

\* sklearn's check_is_fitted(self, 'lambda_'): the attribute exists
check_is_fitted(has_lambda_) == has_lambda_

(***************************************************************************)
(* The transformer object and the call in progress.                        *)
(***************************************************************************)
VARIABLES
    variant,      \* "BoxCox" or "YeoJohnson": the class of the transformer
    cols,         \* self.cols
    n_jobs,       \* self.n_jobs
    has_lambda_,  \* the attribute lambda_ exists
    lambda_,      \* self.lambda_
    fit_cols_,    \* self.fit_cols_
    pc,           \* "idle", or "est" while _fit waits for Parallel(...)
    op,           \* the last call: "none", "fit", "transform"
    outcome,      \* its result: "none", "running", "ok", or the error raised
    argX,         \* the table the caller passed, as it was at the call
    callerX,      \* what the caller's table object holds now
    work,         \* the local X of _fit: the frame check_dataframe returned
    work_is_arg,  \* that frame is the caller's object
    tasks,        \* the delayed estimation calls of _fit, in cols order
    out,          \* the table transform returned
    nEst,         \* estimator calls entered during the last call
    nTrans        \* columns transformed during the last call

vars == <<variant, cols, n_jobs, has_lambda_, lambda_, fit_cols_, pc, op,
          outcome, argX, callerX, work, work_is_arg, tasks, out, nEst, nTrans>>

config == <<variant, cols, n_jobs>>
model == <<has_lambda_, lambda_, fit_cols_>>

Variants == {"BoxCox", "YeoJohnson"}
NJobs == {1, 2}

Init ==
    /\ variant \in Variants
    /\ cols \in ColsOptions
    /\ n_jobs \in NJobs
    /\ has_lambda_ = FALSE
    /\ lambda_ = <<>>
    /\ fit_cols_ = <<>>
    /\ pc = "idle"
    /\ op = "none"
    /\ outcome = "none"
    /\ argX = NoTable
    /\ callerX = NoTable
    /\ work = NoTable
    /\ work_is_arg = FALSE
    /\ tasks = <<>>
    /\ out = NoTable
    /\ nEst = 0
    /\ nTrans = 0

\* fit(): the estimation_function object built for the variant, entered with y
est_begin(y) ==
    IF variant = "BoxCox" THEN bc_est_begin(y, min_value)
    ELSE yj_est_begin(y, brack)

NoSearch == search_init("none", <<>>)

\* n_jobs = 1: joblib calls the tasks one after the other in this process, on
\* the objects themselves; otherwise each task's arguments are pickled to a
\* worker process, which works on its own copy
in_process == n_jobs = 1

(***************************************************************************)
(* _BaseSkewnessTransformer._fit                                           *)
(***************************************************************************)
\* lines 182-185: validation; on success the delayed calls are lined up
FitBegin(X) ==
    /\ pc = "idle"
    /\ LET r == check_dataframe(X, cols)
           bad == IF r.err THEN TRUE ELSE validate_multiple_rows(r.frame)
       IN  /\ op' = "fit"
           /\ argX' = X
           /\ callerX' = X
           /\ out' = NoTable
           /\ nEst' = 0
           /\ nTrans' = 0
           /\ IF bad
              THEN /\ outcome' = "ValueError"
                   /\ pc' = "idle"
                   /\ work' = NoTable
                   /\ work_is_arg' = FALSE
                   /\ tasks' = <<>>
              ELSE /\ outcome' = "running"
                   /\ pc' = "est"
                   /\ work' = r.frame
                   /\ work_is_arg' = r.same
                   /\ tasks' = [i \in 1..Len(r.cols) |->
                                   [st |-> "queued", col |-> r.cols[i],
                                    in |-> <<>>, s |-> NoSearch, lam |-> 0]]
    /\ UNCHANGED <<config, model>>

Running == {i \in DOMAIN tasks : tasks[i].st = "running"}

\* lines 190-192: the next delayed call is dispatched to a free worker; it is
\* handed X[i], the column of the local frame
TaskStart(i) ==
    /\ pc = "est"
    /\ tasks[i].st = "queued"
    /\ \A j \in 1..(i - 1) : tasks[j].st # "queued"
    /\ Cardinality(Running) < n_jobs
    /\ LET y == work.col[tasks[i].col]
       IN  tasks' = [tasks EXCEPT ![i].st = "running", ![i].in = y,
                                  ![i].s = est_begin(y)]
    /\ nEst' = nEst + 1
    /\ UNCHANGED <<config, model, pc, op, outcome, argX, callerX, work,
                   work_is_arg, out, nTrans>>

\* one evaluation of the objective (or the final convergence test) of the
\* line search of task i
TaskStep(i) ==
    /\ pc = "est"
    /\ tasks[i].st = "running"
    /\ tasks[i].s.ph # "done"
    /\ LET t == tasks[i]
           s2 == search_step(t.s)
           w2 == IF in_process
                 THEN [work EXCEPT !.col[t.col] = est_arg(s2, work.col[t.col])]
                 ELSE work
       IN  /\ tasks' = [tasks EXCEPT ![i].s = s2]
           /\ work' = w2
           /\ callerX' = IF work_is_arg THEN w2 ELSE callerX
    /\ UNCHANGED <<config, model, pc, op, outcome, argX, work_is_arg, out,
                   nEst, nTrans>>

\* the estimator of task i returns its lambda
TaskDone(i) ==
    /\ pc = "est"
    /\ tasks[i].st = "running"
    /\ tasks[i].s.ph = "done"
    /\ tasks' = [tasks EXCEPT ![i].st = "done", ![i].lam = tasks[i].s.x]
    /\ UNCHANGED <<config, model, pc, op, outcome, argX, callerX, work,
                   work_is_arg, out, nEst, nTrans>>

\* lines 189-197: Parallel returns the results in task order; they are stored
FitEnd ==
    /\ pc = "est"
    /\ \A i \in DOMAIN tasks : tasks[i].st = "done"
    /\ lambda_' = [i \in DOMAIN tasks |-> tasks[i].lam]
    /\ fit_cols_' = [i \in DOMAIN tasks |-> tasks[i].col]
    /\ has_lambda_' = TRUE
    /\ pc' = "idle"
    /\ outcome' = "ok"
    /\ work' = NoTable
    /\ work_is_arg' = FALSE
    /\ UNCHANGED <<config, op, argX, callerX, tasks, out, nEst, nTrans>>

(***************************************************************************)
(* _BaseSkewnessTransformer.transform                                      *)
(***************************************************************************)
\* _transform_vector(y, lam) of the variant: the column it returns
transform_vector(y, lam) ==
    IF variant = "BoxCox" THEN bc_transform_vector(y, lam)
    ELSE yj_transform_y(y, lam).ret

\* line 238: X[nm] = self._transform_vector(X[nm], lam)
transform_column(X, nm, lam) ==
    [X EXCEPT !.col[nm] = transform_vector(X.col[nm], lam)]

\* lines 237-238: for nm, lam in zip(cols, lambdas_): the frame after the
\* pairs i, i+1, ... have been handled
RECURSIVE transform_loop(_, _, _, _)
transform_loop(X, cs, lams, i) ==
    IF i > Len(cs) \/ i > Len(lams) THEN X
    ELSE transform_loop(transform_column(X, cs[i], lams[i]), cs, lams, i + 1)

\* transform(X).  outcome : "ok" or the error raised,  out : the table
\* returned,  arg : what the caller's table holds after the call,
\* n : columns transformed
transform_call(X) ==
    IF ~check_is_fitted(has_lambda_)
    THEN [outcome |-> "NotFittedError", out |-> NoTable, arg |-> X, n |-> 0]
    ELSE LET r == check_dataframe(X, cols)
         IN  IF r.err
             THEN [outcome |-> "ValueError", out |-> NoTable, arg |-> X, n |-> 0]
             ELSE IF validate_test_set_columns(fit_cols_, r.frame.names)
             THEN [outcome |-> "ValueError", out |-> NoTable, arg |-> X, n |-> 0]
             ELSE LET res == transform_loop(r.frame, fit_cols_, lambda_, 1)
                  IN  [outcome |-> "ok", out |-> res,
                       arg |-> IF r.same THEN res ELSE X,
                       n |-> Min2(Len(fit_cols_), Len(lambda_))]

Transform(X) ==
    /\ pc = "idle"
    /\ LET r == transform_call(X)
       IN  /\ op' = "transform"
           /\ outcome' = r.outcome
           /\ argX' = X
           /\ callerX' = r.arg
           /\ out' = r.out
           /\ nTrans' = r.n
    /\ nEst' = 0
    /\ tasks' = <<>>
    /\ UNCHANGED <<config, model, pc, work, work_is_arg>>

Next ==
    \/ \E X \in Tables : FitBegin(X)
    \/ \E i \in DOMAIN tasks : TaskStart(i)
    \/ \E i \in DOMAIN tasks : TaskStep(i)
    \/ \E i \in DOMAIN tasks : TaskDone(i)
    \/ FitEnd
    \/ \E X \in Tables : Transform(X)

Spec == Init /\ [][Next]_vars

(***************************************************************************)
(* Reference runs used by the properties below.                            *)
(***************************************************************************)
\* the estimator run to its return: the search after its last step
RECURSIVE search_run(_)
search_run(s) == IF s.ph = "done" THEN s ELSE search_run(search_step(s))

\* the lambda the variant's estimator returns when entered with column y
est_lam(y) == search_run(est_begin(y)).x

\* Parallel(n_jobs=1)(delayed(est)(X[i], ...) for i in cols): the calls made
\* one after the other on the columns of frame, from position i on; each call
\* leaves in its column what the estimator left in the array handed in
seq_store(frame, nm, s) == [frame EXCEPT !.col[nm] = est_arg(s, frame.col[nm])]
RECURSIVE seq_from(_, _, _)
seq_after(frame, cs, i, s) ==
    <<s.x>> \o seq_from(seq_store(frame, cs[i], s), cs, i + 1)
seq_from(frame, cs, i) ==
    IF i > Len(cs) THEN <<>>
    ELSE seq_after(frame, cs, i, search_run(est_begin(frame.col[cs[i]])))

\* positions of the fit-column list that hold name c
Positions(c) == {i \in DOMAIN fit_cols_ : fit_cols_[i] = c}

\* a fit call on X passes validation: stated on the table, not by the validators
RequestedPresent(X) ==
    cols.none \/ \A i \in DOMAIN cols.list : cols.list[i] \in Range(X.names)
Resolved(X) == IF cols.none THEN X.names ELSE cols.list
ResolvedFinite(X) ==
    \A i \in DOMAIN Resolved(X) :
        Resolved(X)[i] \in Range(X.names) =>
            \A r \in DOMAIN X.col[Resolved(X)[i]] : X.col[Resolved(X)[i]][r] # NaN
FitValid(X) == RequestedPresent(X) /\ ResolvedFinite(X) /\ NRows(X) >= 2

(***************************************************************************)
(* C1: while no fit has completed successfully, a transform call fails     *)
(* with NotFittedError, transforms no column and returns no table,         *)
(* whatever the table passed: the fitted test precedes table validation.   *)
(***************************************************************************)
C1_NotFittedFirst ==
    (op = "transform" /\ ~has_lambda_) =>
        (outcome = "NotFittedError" /\ nTrans = 0 /\ out = NoTable)

\* an unfitted transformer was handed a table that validation rejects
C1_Witness ==
    /\ op = "transform"
    /\ ~has_lambda_
    /\ ~(RequestedPresent(argX) /\ ResolvedFinite(argX))
    /\ outcome = "NotFittedError"

(***************************************************************************)
(* C2: at every point of every fit and transform call, of both variants,   *)
(* the caller's table holds the values it held when it was passed.         *)
(***************************************************************************)
C2_CallerTableUnchanged == callerX = argX

\* a Yeo-Johnson transform rewrote columns, and did so on its own frame
C2_Witness ==
    /\ variant = "YeoJohnson"
    /\ op = "transform"
    /\ outcome = "ok"
    /\ out # argX
    /\ callerX = argX

(***************************************************************************)
(* C3: in the table a successful transform returns, a column named at      *)
(* position i of the fit-column list holds the variant's transform of the  *)
(* input column with lambda_[i], and the other columns are the input's.    *)
(***************************************************************************)
C3_TransformOutput ==
    (op = "transform" /\ outcome = "ok") =>
        /\ out.names = argX.names
        /\ \A c \in Range(argX.names) :
              /\ \A i \in Positions(c) :
                    out.col[c] = transform_vector(argX.col[c], lambda_[i])
              /\ Positions(c) = {} => out.col[c] = argX.col[c]

(***************************************************************************)
(* C4: a fit call on a table with fewer than 2 rows, an absent requested   *)
(* column or a non-finite value in a resolved column fails with no         *)
(* estimator entered and no estimation pending; a transform call of a      *)
(* fitted transformer on a table without one of the fit columns fails with *)
(* no column transformed and no table returned.                            *)
(***************************************************************************)
C4_FailFast ==
    /\ (op = "fit" /\ ~FitValid(argX)) =>
            /\ outcome = "ValueError"
            /\ nEst = 0
            /\ pc = "idle"
            /\ tasks = <<>>
    /\ (op = "transform" /\ has_lambda_
            /\ \E i \in DOMAIN fit_cols_ : fit_cols_[i] \notin Range(argX.names)) =>
            /\ outcome = "ValueError"
            /\ nTrans = 0
            /\ out = NoTable

\* a fitted transformer was asked to fit a single row and kept its model
C4_Witness ==
    /\ op = "fit"
    /\ NRows(argX) = 1
    /\ outcome = "ValueError"
    /\ has_lambda_
    /\ nEst = 0

(***************************************************************************)
(* C5: a successful fit, with any n_jobs and any interleaving of the       *)
(* estimation tasks, stores one lambda per resolved column, in resolved    *)
(* order, the lambda at position i being the estimate from resolved column *)
(* i of the table passed; the list is the one the n_jobs = 1 run stores.   *)
(***************************************************************************)
C5_ParallelEqualsSequential ==
    (op = "fit" /\ outcome = "ok") =>
        /\ fit_cols_ = Resolved(argX)
        /\ Len(lambda_) = Len(fit_cols_)
        /\ \A i \in DOMAIN lambda_ : lambda_[i] = est_lam(argX.col[fit_cols_[i]])
        /\ lambda_ = seq_from(argX, fit_cols_, 1)

(***************************************************************************)
(* C6: lambda_ and fit_cols_ change only in the step that completes a fit  *)
(* of a valid table; no transform and no failing fit writes them, and a    *)
(* transform repeated on the same table returns the same result.           *)
(***************************************************************************)
C6_ModelChangesOnlyInSuccessfulFit ==
    [][/\ model' # model =>
            (pc = "est" /\ op' = "fit" /\ outcome' = "ok" /\ FitValid(argX'))
       /\ (op = "transform" /\ op' = "transform" /\ argX' = argX) =>
            (out' = out /\ outcome' = outcome)]_vars

\* a fit is estimating while the model of the previous fit is in place
C6_Witness == has_lambda_ /\ pc = "est" /\ nEst > 0 /\ lambda_ # <<>>

(***************************************************************************)
(* C7: in every Fitted Model no column name occurs twice in fit_cols_,     *)
(* and a successful transform transforms each fit column once.             *)
(***************************************************************************)
C7_UniqueFitColumns ==
    /\ has_lambda_ => \A c \in Range(fit_cols_) : Cardinality(Positions(c)) = 1
    /\ (op = "transform" /\ outcome = "ok") => nTrans = Cardinality(Range(fit_cols_))

(***************************************************************************)
(* C8: no fit completes successfully when the Yeo-Johnson objective was    *)
(* the NaN sentinel at every lambda the line search of one of its columns  *)
(* evaluated.                                                              *)
(***************************************************************************)
C8_AllNaNSearchFails ==
    ~(/\ op = "fit"
      /\ outcome = "ok"
      /\ \E i \in DOMAIN tasks :
            tasks[i].s.kind = "yj" /\ tasks[i].s.evals > 0 /\ tasks[i].s.allnan)

(***************************************************************************)
(* C9: as the class documentation has it, a transformed entry is the power *)
(* branch whenever lambda is not 0, negative lambda included, and the      *)
(* logarithm only at lambda 0: Box-Cox on the floored entry, Yeo-Johnson   *)
(* on an entry >= 0.                                                       *)
(***************************************************************************)
\* the documented Box-Cox and Yeo-Johnson (y >= 0) transforms of one entry
doc_bc(x, lam) ==
    IF lam # 0 THEN IDiv(Pow(Max2(x, min_value), lam) - Scale, lam)
    ELSE Ln(Max2(x, min_value))
doc_yj(x, lam) == IF lam # 0 THEN yj_case1(x, lam) ELSE yj_case2(x)

C9_PowerBranchForNonzeroLambda ==
    (op = "transform" /\ outcome = "ok") =>
        \A i \in DOMAIN fit_cols_ :
            Cardinality(Positions(fit_cols_[i])) = 1 =>
                \A r \in DOMAIN argX.col[fit_cols_[i]] :
                    LET x == argX.col[fit_cols_[i]][r]
                        t == out.col[fit_cols_[i]][r]
                    IN  /\ variant = "BoxCox" => t = doc_bc(x, lambda_[i])
                        /\ (variant = "YeoJohnson" /\ x >= 0) =>
                                t = doc_yj(x, lambda_[i])

(***************************************************************************)
(* C10: while a Yeo-Johnson estimator runs, the array it was handed holds  *)
(* what it held when the estimator was entered, after every evaluation of  *)
(* the objective.                                                          *)
(***************************************************************************)
C10_ObjectiveLeavesColumn ==
    \A i \in DOMAIN tasks :
        (tasks[i].st # "queued" /\ tasks[i].s.kind = "yj") =>
            est_arg(tasks[i].s, tasks[i].in) = tasks[i].in

(***************************************************************************)
(* C11: in one evaluation of the Yeo-Johnson log-likelihood the log-sum    *)
(* is over the values of data as passed, shifted once if their minimum is  *)
(* below ZERO, the variance is over their transform, shifted once if its   *)
(* minimum is below ZERO, and neither shift changes the other array: the   *)
(* score is the one obtained with y_trans an array of its own.             *)
(***************************************************************************)
\* _yj_transform_y applied to a copy of y: the argument keeps its contents
copied(y, written) == [ret |-> written, arg |-> y, same |-> FALSE]
\* _yj_llf with data and y_trans two arrays
yj_llf_independent(data0, lmb) ==
    yj_llf_after(copied(data0, yj_values(data0, lmb)), lmb)

\* the search of a task is about to evaluate the objective
about_to_evaluate(s) ==
    s.ph # "done" /\ ~(s.ph = "min" /\ search_converged(s))

C11_IndependentArrays ==
    \A i \in DOMAIN tasks :
        (tasks[i].st = "running" /\ tasks[i].s.kind = "yj") =>
            \* the score recorded by the first evaluation
            /\ tasks[i].s.evals = 1 =>
                  tasks[i].s.fa =
                      Neg(yj_llf_independent(tasks[i].in, tasks[i].s.xa).llf)
            \* the score of the evaluation made next
            /\ about_to_evaluate(tasks[i].s) =>
                  yj_llf(tasks[i].s.data, next_point(tasks[i].s)).llf =
                      yj_llf_independent(tasks[i].s.data,
                                         next_point(tasks[i].s)).llf

(***************************************************************************)
(* The Yeo-Johnson transform on its own: a transformer holding a model of  *)
(* one column "a" with any lambda of LamRange transforms tables whose      *)
(* column "a" is any vector over Entries.                                  *)
(***************************************************************************)
\* largest magnitude of the stored lambda
MaxLam == 3
LamRange == (0 - MaxLam)..MaxLam
Entries == {0 - (2 * Scale), 0 - Scale, 0, Scale}
YJVectors == UNION {[1..n -> Entries] : n \in 1..MaxRows}
YJTables == {[names |-> <<"a">>, col |-> [c \in {"a"} |-> v]] : v \in YJVectors}

InitYJ ==
    /\ variant = "YeoJohnson"
    /\ cols = ColsList(<<"a">>)
    /\ n_jobs = 1
    /\ has_lambda_ = TRUE
    /\ lambda_ \in {<<lam>> : lam \in LamRange}
    /\ fit_cols_ = <<"a">>
    /\ pc = "idle"
    /\ op = "none"
    /\ outcome = "none"
    /\ argX = NoTable
    /\ callerX = NoTable
    /\ work = NoTable
    /\ work_is_arg = FALSE
    /\ tasks = <<>>
    /\ out = NoTable
    /\ nEst = 0
    /\ nTrans = 0

NextYJ == \E X \in YJTables : Transform(X)

SpecYJ == InitYJ /\ [][NextYJ]_vars

(***************************************************************************)
(* C12: the Yeo-Johnson transform rewrites every element by exactly one of *)
(* its four cases, the one selected by the sign of the element as passed   *)
(* and by lambda: the four masks are pairwise disjoint and cover every     *)
(* element, and the returned element is that one case applied to the       *)
(* element as passed (no case works on a value another case wrote).        *)
(***************************************************************************)
\* the masks of m that select element r
cases_of(m, r) ==
    {k \in 1..4 : <<m.c1[r], m.c2[r], m.c3[r], m.c4[r]>>[k]}

=============================================================================
